---- MODULE Spec2Model ----
(***************************************************************************)
(* State-decision engine of EmotionHand:                                   *)
(*   src/EmotionHand_GitHub/emotion_state_detector.py                      *)
(* RuleBasedDetector (scoring, smoothing, fatigue hysteresis, rejection,   *)
(* history, statistics, reset) and EnsembleDetector wrapping it.           *)
(*                                                                         *)
(* Numbers.  The program computes on Python floats.  The model computes    *)
(* on exact rationals <<n, d>> (d > 0, lowest terms), so that every        *)
(* comparison, clamp, division and blend of the code is carried out as     *)
(* written, without floating-point rounding.                               *)
(*                                                                         *)
(* Time.  time.time() is the variable now: every call of predict_state     *)
(* reads a clock value that is not smaller than the one read by the call   *)
(* before (the three reads inside one call are one instant).               *)
(*                                                                         *)
(* History entries.  _update_history stores a StatePrediction whose        *)
(* raw_scores is {} and whose reasoning is "": the model keeps state,      *)
(* confidence and raw_scores of every entry; reasoning strings and the     *)
(* timestamp field, which no method reads back, are left out.              *)
(***************************************************************************)
EXTENDS Integers, Sequences, FiniteSets, TLC

(***************************************************************************)
(* Exact rational arithmetic                                               *)
(***************************************************************************)
RECURSIVE GCD(_, _)
GCD(a, b) == IF b = 0 THEN a ELSE GCD(b, a % b)

AbsI(a) == IF a < 0 THEN -a ELSE a

Q(n, d) ==
  LET s == IF d < 0 THEN -1 ELSE 1
      g == GCD(AbsI(n), AbsI(d))
  IN  <<(s * n) \div g, (s * d) \div g>>

QAdd(x, y) == Q(x[1] * y[2] + y[1] * x[2], x[2] * y[2])
QSub(x, y) == Q(x[1] * y[2] - y[1] * x[2], x[2] * y[2])
QMul(x, y) == Q(x[1] * y[1], x[2] * y[2])
QDiv(x, y) == Q(x[1] * y[2], x[2] * y[1])
QLt(x, y) == x[1] * y[2] < y[1] * x[2]
QLe(x, y) == x[1] * y[2] <= y[1] * x[2]
QAbs(x) == <<AbsI(x[1]), x[2]>>
QInt(k) == <<k, 1>>
QZero == <<0, 1>>
QOne == <<1, 1>>

\* Python max(a, b) and min(a, b): the first argument wins a tie.
PyMax(a, b) == IF QLt(a, b) THEN b ELSE a
PyMin(a, b) == IF QLt(b, a) THEN b ELSE a

\* int(x) of a non-negative float: truncation.
PyInt(x) == x[1] \div x[2]

(***************************************************************************)
(* class EmotionState                                                      *)
(***************************************************************************)
EmotionState == {"Relaxed", "Focused", "Stressed", "Fatigued", "Neutral"}

\* A Python dict is a function on its key set; {} is the empty function.
EmptyDict == <<>>

\* Insertion order of the keys of the score dict built by
\* _calculate_raw_scores; _apply_smoothing rebuilds it in the same order.
ScoreKeys == <<"relaxed", "focused", "stressed", "fatigued">>

ScoreKeySet == {ScoreKeys[i] : i \in 1..Len(ScoreKeys)}

\* state_mapping.get(name, 'Neutral')
state_mapping(name) ==
  CASE name = "relaxed" -> "Relaxed"
    [] name = "focused" -> "Focused"
    [] name = "stressed" -> "Stressed"
    [] name = "fatigued" -> "Fatigued"
    [] name = "neutral" -> "Neutral"
    [] OTHER -> "Neutral"

\* Faulty variant of ArgMax: the keys are visited in alphabetical order.
ArgMax_SortedKeys(scores) ==
  LET sorted == <<"fatigued", "focused", "relaxed", "stressed">>
      best == CHOOSE i \in 1..Len(sorted) :
                /\ \A j \in 1..Len(sorted) :
                     QLe(scores[sorted[j]], scores[sorted[i]])
                /\ \A j \in 1..(i - 1) :
                     QLt(scores[sorted[j]], scores[sorted[i]])
  IN  sorted[best]

\* Faulty variant of ArgMax: among equal maximal scores the last key wins.
ArgMax_LastWins(scores) ==
  LET best == CHOOSE i \in 1..Len(ScoreKeys) :
                /\ \A j \in 1..Len(ScoreKeys) :
                     QLe(scores[ScoreKeys[j]], scores[ScoreKeys[i]])
                /\ \A j \in (i + 1)..Len(ScoreKeys) :
                     QLt(scores[ScoreKeys[j]], scores[ScoreKeys[i]])
  IN  ScoreKeys[best]

\* max(scores, key=scores.get): the first key, in insertion order, whose
\* score no other key's score exceeds.
ArgMax(scores) ==
  LET best == CHOOSE i \in 1..Len(ScoreKeys) :
                /\ \A j \in 1..Len(ScoreKeys) :
                     QLe(scores[ScoreKeys[j]], scores[ScoreKeys[i]])
                /\ \A j \in 1..(i - 1) :
                     QLt(scores[ScoreKeys[j]], scores[ScoreKeys[i]])
  IN  ScoreKeys[best]

(***************************************************************************)
(* Configuration: config['emotional_states']['thresholds'][state][key]     *)
(* and config['emotional_states']['smoothing'][key], flattened to          *)
(* "state.key" / "smoothing.key".  A missing key is absent from DOMAIN.    *)
(***************************************************************************)
RequiredKeys ==
  {"relaxed.rms_max", "relaxed.gsr_max",
   "focused.rms_min", "focused.rms_max", "focused.gsr_min",
   "focused.gsr_max", "focused.mdf_min",
   "stressed.rms_min", "stressed.gsr_min", "stressed.mdf_min",
   "fatigued.mdf_max", "fatigued.duration_min",
   "smoothing.alpha", "smoothing.voting_window_sec",
   "smoothing.rejection_threshold"}

Has(config, key) == key \in DOMAIN config

\* Faulty variant of FeatureGet: a missing key reads as 0.
FeatureGet_ZeroDefault(features, key) ==
  IF key \in DOMAIN features THEN features[key] ELSE QZero

\* Faulty variant of FeaturesAfter: the reads are
\* features.setdefault(key, 0.5), which stores the default in the caller's
\* mapping.
FeaturesAfter_SetDefault(features) ==
  [k \in DOMAIN features \cup {"rms", "mdf", "gsr_tonic"} |->
     IF k \in DOMAIN features THEN features[k] ELSE Q(1, 2)]

\* The caller's feature mapping after a call: every access is
\* features.get(key, 0.5), which stores nothing.
FeaturesAfter(features) == features

\* features.get(key, 0.5)
FeatureGet(features, key) ==
  IF key \in DOMAIN features THEN features[key] ELSE Q(1, 2)

(***************************************************************************)
(* Scoring.  Every operator returns [exc, v]: exc is "none" or the         *)
(* exception the Python code raises on that path, v the float returned.    *)
(***************************************************************************)
Ok(v) == [exc |-> "none", v |-> v]
Raise(e) == [exc |-> e, v |-> QZero]

\* Faulty variant of _calculate_relax_score: the penalties are subtracted
\* without max(0, ...).
_calculate_relax_score_NoFloor(config, rms, gsr_tonic, mdf) ==
  IF ~({"relaxed.rms_max", "relaxed.gsr_max"} \subseteq DOMAIN config)
  THEN Raise("KeyError")
  ELSE
    LET rms_max == config["relaxed.rms_max"]
        gsr_max == config["relaxed.gsr_max"]
        s1 == IF QLt(rms_max, rms)
              THEN QSub(QOne, QMul(QSub(rms, rms_max), QInt(2)))
              ELSE PyMin(QOne, QAdd(QOne, QMul(QSub(rms_max, rms), Q(3, 2))))
    IN  IF QLt(gsr_max, gsr_tonic)
        THEN Ok(QSub(s1, QMul(QSub(gsr_tonic, gsr_max), QInt(2))))
        ELSE Ok(s1)

_calculate_relax_score(config, rms, gsr_tonic, mdf) ==
  IF ~Has(config, "relaxed.rms_max") THEN Raise("KeyError")
  ELSE
    LET rms_max == config["relaxed.rms_max"]
        s1 == IF QLt(rms_max, rms)
              THEN PyMax(QZero, QSub(QOne, QMul(QSub(rms, rms_max), QInt(2))))
              ELSE PyMin(QOne, QAdd(QOne, QMul(QSub(rms_max, rms), Q(3, 2))))
    IN  IF ~Has(config, "relaxed.gsr_max") THEN Raise("KeyError")
        ELSE
          LET gsr_max == config["relaxed.gsr_max"]
          IN  IF QLt(gsr_max, gsr_tonic)
              THEN Ok(PyMax(QZero, QSub(s1, QMul(QSub(gsr_tonic, gsr_max), QInt(2)))))
              ELSE Ok(s1)

\* Faulty variant of _calculate_focus_score: the rms reward inside the band
\* carries half weight, like the gsr reward.
_calculate_focus_score_HalfReward(config, rms, gsr_tonic, mdf) ==
  IF ~({"focused.rms_min", "focused.rms_max", "focused.gsr_min",
        "focused.gsr_max", "focused.mdf_min"} \subseteq DOMAIN config)
  THEN Raise("KeyError")
  ELSE
    LET rms_min == config["focused.rms_min"]
        rms_max == config["focused.rms_max"]
        rms_center == QDiv(QAdd(rms_min, rms_max), QInt(2))
        rms_range == QSub(rms_max, rms_min)
        gsr_min == config["focused.gsr_min"]
        gsr_max == config["focused.gsr_max"]
        gsr_center == QDiv(QAdd(gsr_min, gsr_max), QInt(2))
        gsr_range == QSub(gsr_max, gsr_min)
        inband == QLe(gsr_min, gsr_tonic) /\ QLe(gsr_tonic, gsr_max)
    IN
    IF rms_range = QZero \/ (inband /\ gsr_range = QZero)
    THEN Raise("ZeroDivisionError")
    ELSE
      LET dist == QDiv(QAbs(QSub(rms, rms_center)), rms_range)
          s1 == IF QLe(rms_min, rms) /\ QLe(rms, rms_max)
                THEN PyMin(QOne, QAdd(Q(1, 2),
                                      QMul(QSub(QOne, dist), Q(1, 2))))
                ELSE PyMax(QZero, QSub(Q(1, 2), dist))
          s2 == IF inband
                THEN PyMin(QOne,
                       QAdd(s1, QMul(QSub(QOne,
                         QDiv(QAbs(QSub(gsr_tonic, gsr_center)), gsr_range)),
                         Q(1, 2))))
                ELSE s1
      IN  IF QLe(config["focused.mdf_min"], mdf)
          THEN Ok(PyMin(QOne,
                 QAdd(s2, QMul(QSub(mdf, config["focused.mdf_min"]), Q(1, 2)))))
          ELSE Ok(s2)

_calculate_focus_score(config, rms, gsr_tonic, mdf) ==
  IF ~({"focused.rms_min", "focused.rms_max"} \subseteq DOMAIN config)
  THEN Raise("KeyError")
  ELSE
    LET rms_min == config["focused.rms_min"]
        rms_max == config["focused.rms_max"]
        rms_center == QDiv(QAdd(rms_min, rms_max), QInt(2))
        rms_range == QSub(rms_max, rms_min)
    IN
    IF rms_range = QZero THEN Raise("ZeroDivisionError")
    ELSE
      LET dist == QDiv(QAbs(QSub(rms, rms_center)), rms_range)
          s1 == IF QLe(rms_min, rms) /\ QLe(rms, rms_max)
                THEN PyMin(QOne, QAdd(Q(1, 2), QSub(QOne, dist)))
                ELSE PyMax(QZero, QSub(Q(1, 2), dist))
      IN
      IF ~({"focused.gsr_min", "focused.gsr_max"} \subseteq DOMAIN config)
      THEN Raise("KeyError")
      ELSE
        LET gsr_min == config["focused.gsr_min"]
            gsr_max == config["focused.gsr_max"]
            gsr_center == QDiv(QAdd(gsr_min, gsr_max), QInt(2))
            gsr_range == QSub(gsr_max, gsr_min)
            inband == QLe(gsr_min, gsr_tonic) /\ QLe(gsr_tonic, gsr_max)
        IN
        IF inband /\ gsr_range = QZero THEN Raise("ZeroDivisionError")
        ELSE
          LET s2 == IF inband
                    THEN PyMin(QOne,
                           QAdd(s1, QMul(QSub(QOne,
                             QDiv(QAbs(QSub(gsr_tonic, gsr_center)), gsr_range)),
                             Q(1, 2))))
                    ELSE s1
              \* focus_threshold.get('mdf_min', 0.5)
              mdf_cmp == IF Has(config, "focused.mdf_min")
                         THEN config["focused.mdf_min"] ELSE Q(1, 2)
          IN
          IF QLe(mdf_cmp, mdf)
          THEN IF ~Has(config, "focused.mdf_min") THEN Raise("KeyError")
               ELSE Ok(PyMin(QOne,
                      QAdd(s2, QMul(QSub(mdf, config["focused.mdf_min"]), Q(1, 2)))))
          ELSE Ok(s2)

\* Faulty variant of _calculate_stress_score: the three rewards are added
\* without the tests rms >= rms_min, gsr_tonic >= gsr_min, mdf >= mdf_min.
_calculate_stress_score_Unguarded(config, rms, gsr_tonic, mdf) ==
  IF ~({"stressed.rms_min", "stressed.gsr_min", "stressed.mdf_min"}
         \subseteq DOMAIN config)
  THEN Raise("KeyError")
  ELSE
    LET s1 == PyMin(QOne, QAdd(Q(3, 10),
                QMul(QSub(rms, config["stressed.rms_min"]), QInt(2))))
        s2 == PyMin(QOne, QAdd(s1,
                QMul(QSub(gsr_tonic, config["stressed.gsr_min"]), Q(3, 2))))
    IN  Ok(PyMin(QOne, QAdd(s2, QSub(mdf, config["stressed.mdf_min"]))))

_calculate_stress_score(config, rms, gsr_tonic, mdf) ==
  IF ~Has(config, "stressed.rms_min") THEN Raise("KeyError")
  ELSE
    LET rms_min == config["stressed.rms_min"]
        s1 == IF QLe(rms_min, rms)
              THEN PyMin(QOne, QAdd(Q(3, 10), QMul(QSub(rms, rms_min), QInt(2))))
              ELSE Q(3, 10)
    IN
    IF ~Has(config, "stressed.gsr_min") THEN Raise("KeyError")
    ELSE
      LET gsr_min == config["stressed.gsr_min"]
          s2 == IF QLe(gsr_min, gsr_tonic)
                THEN PyMin(QOne, QAdd(s1, QMul(QSub(gsr_tonic, gsr_min), Q(3, 2))))
                ELSE s1
          \* stress_threshold.get('mdf_min', 0.6)
          mdf_cmp == IF Has(config, "stressed.mdf_min")
                     THEN config["stressed.mdf_min"] ELSE Q(3, 5)
      IN
      IF QLe(mdf_cmp, mdf)
      THEN IF ~Has(config, "stressed.mdf_min") THEN Raise("KeyError")
           ELSE Ok(PyMin(QOne, QAdd(s2, QSub(mdf, config["stressed.mdf_min"]))))
      ELSE Ok(s2)

\* Faulty variant of Normalize: the scores are not divided by their sum.
Normalize_NoDivision(scores) == scores

\* sum(scores.values()), and the division of every score by it
Normalize(scores) ==
  LET total == QAdd(QAdd(scores["relaxed"], scores["focused"]),
                    QAdd(scores["stressed"], scores["fatigued"]))
  IN  IF QLt(QZero, total)
      THEN [k \in ScoreKeySet |-> QDiv(scores[k], total)]
      ELSE scores

\* Faulty variant of CollectScores: the fatigued placeholder is 0.1.
CollectScores_SmallPlaceholder(relax, focus, stress) ==
  IF relax.exc # "none" THEN relax
  ELSE IF focus.exc # "none" THEN focus
  ELSE IF stress.exc # "none" THEN stress
  ELSE Ok(Normalize([k \in ScoreKeySet |->
             CASE k = "relaxed" -> relax.v
               [] k = "focused" -> focus.v
               [] k = "stressed" -> stress.v
               [] OTHER -> Q(1, 10)]))

\* lines 128-149: the four scores collected in the dict and normalised; the
\* first exception raised by a score function propagates
CollectScores(relax, focus, stress) ==
  IF relax.exc # "none" THEN relax
  ELSE IF focus.exc # "none" THEN focus
  ELSE IF stress.exc # "none" THEN stress
  ELSE Ok(Normalize([k \in ScoreKeySet |->
             CASE k = "relaxed" -> relax.v
               [] k = "focused" -> focus.v
               [] k = "stressed" -> stress.v
               [] OTHER -> Q(3, 10)]))

ScoreFeatures(config, rms, mdf, gsr_tonic) ==
  CollectScores(_calculate_relax_score(config, rms, gsr_tonic, mdf),
                _calculate_focus_score(config, rms, gsr_tonic, mdf),
                _calculate_stress_score(config, rms, gsr_tonic, mdf))

\* lines 128-138: what the three score functions return for a mapping,
\* before the dict is normalised
PreScores(config, features) ==
  LET rms == FeatureGet(features, "rms")
      mdf == FeatureGet(features, "mdf")
      gsr_tonic == FeatureGet(features, "gsr_tonic")
  IN  [relaxed |-> _calculate_relax_score(config, rms, gsr_tonic, mdf),
       focused |-> _calculate_focus_score(config, rms, gsr_tonic, mdf),
       stressed |-> _calculate_stress_score(config, rms, gsr_tonic, mdf)]

_calculate_raw_scores(config, features) ==
  ScoreFeatures(config, FeatureGet(features, "rms"),
                FeatureGet(features, "mdf"), FeatureGet(features, "gsr_tonic"))

(***************************************************************************)
(* Engine state of one RuleBasedDetector (its self fields), as a record    *)
(***************************************************************************)
\* fatigue_start_time: Optional[float] = None
NoTime == -1

\* deque(maxlen=int(self.smoothing_config['voting_window_sec'] * 10))
StateHistoryMaxLen(config) ==
  PyInt(QMul(config["smoothing.voting_window_sec"], QInt(10)))

\* deque(maxlen=20)
ConfidenceHistoryMaxLen == 20

\* the rms trend is recomputed once confidence_history holds this many
TrendMinHistory == 10

\* RuleBasedDetector.__init__: "KeyError" when the constructor raises
Construct(config) ==
  IF Has(config, "smoothing.voting_window_sec") THEN "ok" ELSE "KeyError"

InitialEngineState ==
  [state_history |-> <<>>,
   confidence_history |-> <<>>,
   fatigue_start_time |-> NoTime,
   rms_decline_rate |-> QZero,
   transition_count |-> 0,
   last_state |-> "Neutral"]

\* Faulty variant of DequeAppend: a full deque keeps growing.
DequeAppend_NoEviction(dq, e, maxlen) == Append(dq, e)

\* deque.append on a deque with the given maxlen
DequeAppend(dq, e, maxlen) ==
  IF maxlen = 0 THEN <<>>
  ELSE IF Len(dq) >= maxlen THEN Append(Tail(dq), e)
  ELSE Append(dq, e)

\* Faulty variant of _apply_smoothing: the previous value of every key is
\* the confidence of the last buffered prediction.
_apply_smoothing_FromConfidence(config, self, raw_scores) ==
  IF ~Has(config, "smoothing.alpha") THEN [exc |-> "KeyError", v |-> raw_scores]
  ELSE
    LET alpha == config["smoothing.alpha"]
    IN  IF Len(self.state_history) > 0
        THEN LET last_score ==
                   self.state_history[Len(self.state_history)].confidence
             IN  Ok([k \in ScoreKeySet |->
                      QAdd(QMul(alpha, raw_scores[k]),
                           QMul(QSub(QOne, alpha), last_score))])
        ELSE Ok(raw_scores)

\* Faulty variant of _apply_smoothing: a key missing from the previous
\* scores reads as 0 (last_scores.get(state_name, 0)).
_apply_smoothing_ZeroDefault(config, self, raw_scores) ==
  IF ~Has(config, "smoothing.alpha") THEN [exc |-> "KeyError", v |-> raw_scores]
  ELSE
    LET alpha == config["smoothing.alpha"]
    IN  IF Len(self.state_history) > 0
        THEN LET last_scores == self.state_history[Len(self.state_history)].raw_scores
             IN  Ok([k \in ScoreKeySet |->
                      LET last_score == IF k \in DOMAIN last_scores
                                        THEN last_scores[k] ELSE QZero
                      IN  QAdd(QMul(alpha, raw_scores[k]),
                               QMul(QSub(QOne, alpha), last_score))])
        ELSE Ok(raw_scores)

_apply_smoothing(config, self, raw_scores) ==
  IF ~Has(config, "smoothing.alpha") THEN [exc |-> "KeyError", v |-> raw_scores]
  ELSE
    LET alpha == config["smoothing.alpha"]
    IN  IF Len(self.state_history) > 0
        THEN LET last_scores == self.state_history[Len(self.state_history)].raw_scores
             IN  Ok([k \in ScoreKeySet |->
                      LET last_score == IF k \in DOMAIN last_scores
                                        THEN last_scores[k] ELSE raw_scores[k]
                      IN  QAdd(QMul(alpha, raw_scores[k]),
                               QMul(QSub(QOne, alpha), last_score))])
        ELSE Ok(raw_scores)

\* Faulty variant of RmsDeclineRate: the slope is taken against the default
\* rms 0.5 instead of a copy of the current rms.
RmsDeclineRate_AgainstDefault(self, features) ==
  IF Len(self.confidence_history) >= TrendMinHistory
  THEN QDiv(QSub(FeatureGet(features, "rms"), Q(1, 2)), QInt(3))
  ELSE self.rms_decline_rate

\* lines 229-236: the trend written to self.rms_decline_rate
RmsDeclineRate(self, features) ==
  IF Len(self.confidence_history) >= TrendMinHistory
  THEN LET recent_rms == [i \in 1..5 |-> FeatureGet(features, "rms")]
       IN  QDiv(QSub(recent_rms[5], recent_rms[3]), QInt(3))
  ELSE self.rms_decline_rate

\* Faulty variant of FatigueConditions: the trend condition is left out.
FatigueConditions_NoTrend(config, features, rate) ==
  /\ QLt(FeatureGet(features, "mdf"), config["fatigued.mdf_max"])
  /\ QLt(FeatureGet(features, "rms"), Q(3, 10))

\* lines 239-243: all(fatigue_conditions), given the trend just written
FatigueConditions(config, features, rate) ==
  /\ QLt(FeatureGet(features, "mdf"), config["fatigued.mdf_max"])
  /\ QLt(FeatureGet(features, "rms"), Q(3, 10))
  /\ QLt(rate, Q(-2, 100))

\* Faulty variant of FatigueTimer: a sample that does not qualify leaves
\* fatigue_start_time as it is.
FatigueTimer_KeepsStart(config, self, features, t) ==
  IF ~Has(config, "fatigued.mdf_max")
  THEN [exc |-> "KeyError", ret |-> FALSE, self |-> self]
  ELSE IF FatigueConditions(config, features, self.rms_decline_rate)
  THEN IF self.fatigue_start_time = NoTime
       THEN [exc |-> "none", ret |-> FALSE,
             self |-> [self EXCEPT !.fatigue_start_time = t]]
       ELSE IF ~Has(config, "fatigued.duration_min")
       THEN [exc |-> "KeyError", ret |-> FALSE, self |-> self]
       ELSE [exc |-> "none",
             ret |-> QLe(config["fatigued.duration_min"],
                         QInt(t - self.fatigue_start_time)),
             self |-> self]
  ELSE [exc |-> "none", ret |-> FALSE, self |-> self]

\* lines 238-256, self.rms_decline_rate being written already.  Returns
\* [exc, ret, self]: self carries the writes made before returning or
\* raising.
FatigueTimer(config, self, features, t) ==
  IF ~Has(config, "fatigued.mdf_max")
  THEN [exc |-> "KeyError", ret |-> FALSE, self |-> self]
  ELSE IF FatigueConditions(config, features, self.rms_decline_rate)
  THEN IF self.fatigue_start_time = NoTime
       THEN [exc |-> "none", ret |-> FALSE,
             self |-> [self EXCEPT !.fatigue_start_time = t]]
       ELSE IF ~Has(config, "fatigued.duration_min")
       THEN [exc |-> "KeyError", ret |-> FALSE, self |-> self]
       ELSE [exc |-> "none",
             ret |-> QLe(config["fatigued.duration_min"],
                         QInt(t - self.fatigue_start_time)),
             self |-> self]
  ELSE [exc |-> "none", ret |-> FALSE,
        self |-> [self EXCEPT !.fatigue_start_time = NoTime]]

\* RuleBasedDetector._detect_fatigue: the trend is written first, then the
\* conditions are tested on it
_detect_fatigue(config, self, features, scores, t) ==
  FatigueTimer(config, [self EXCEPT !.rms_decline_rate =
                          RmsDeclineRate(self, features)], features, t)

\* Faulty variant of FatigueOverride: the confidence is the smoothed
\* fatigued score, without the floor of 0.7.
FatigueOverride_NoFloor(smoothed_scores) ==
  [state |-> "Fatigued",
   confidence |-> IF "fatigued" \in DOMAIN smoothed_scores
                  THEN smoothed_scores["fatigued"] ELSE Q(1, 2)]

\* lines 81-84: the Fatigued override
FatigueOverride(smoothed_scores) ==
  [state |-> "Fatigued",
   confidence |-> PyMax(Q(7, 10),
                    IF "fatigued" \in DOMAIN smoothed_scores
                    THEN smoothed_scores["fatigued"] ELSE Q(1, 2))]

\* Faulty variant of RejectionPolicy: a score equal to the threshold is
\* rejected too (<= for <).
RejectionPolicy_Le(config, smoothed_scores) ==
  LET best_state_name == ArgMax(smoothed_scores)
      confidence == smoothed_scores[best_state_name]
  IN  IF ~Has(config, "smoothing.rejection_threshold")
      THEN [exc |-> "KeyError", state |-> "Neutral", confidence |-> QZero]
      ELSE IF QLe(confidence, config["smoothing.rejection_threshold"])
      THEN [exc |-> "none", state |-> "Neutral",
            confidence |-> QSub(QOne, confidence)]
      ELSE [exc |-> "none", state |-> state_mapping(best_state_name),
            confidence |-> confidence]

\* Faulty variant of RejectionPolicy: the rejected confidence is
\* confidence - 1.0 instead of 1.0 - confidence.
RejectionPolicy_SignSlip(config, smoothed_scores) ==
  LET best_state_name == ArgMax(smoothed_scores)
      confidence == smoothed_scores[best_state_name]
  IN  IF ~Has(config, "smoothing.rejection_threshold")
      THEN [exc |-> "KeyError", state |-> "Neutral", confidence |-> QZero]
      ELSE IF QLt(confidence, config["smoothing.rejection_threshold"])
      THEN [exc |-> "none", state |-> "Neutral",
            confidence |-> QSub(confidence, QOne)]
      ELSE [exc |-> "none", state |-> state_mapping(best_state_name),
            confidence |-> confidence]

\* lines 86-106: argmax, then rejection
RejectionPolicy(config, smoothed_scores) ==
  LET best_state_name == ArgMax(smoothed_scores)
      confidence == smoothed_scores[best_state_name]
  IN  IF ~Has(config, "smoothing.rejection_threshold")
      THEN [exc |-> "KeyError", state |-> "Neutral", confidence |-> QZero]
      ELSE IF QLt(confidence, config["smoothing.rejection_threshold"])
      THEN [exc |-> "none", state |-> "Neutral",
            confidence |-> QSub(QOne, confidence)]
      ELSE [exc |-> "none", state |-> state_mapping(best_state_name),
            confidence |-> confidence]

\* Faulty variant of _update_history: the stored prediction carries the
\* winning confidence under every score key instead of raw_scores={}.
_update_history_StoresScores(config, self, state, confidence) ==
  LET prediction == [state |-> state, confidence |-> confidence,
                     raw_scores |-> [k \in ScoreKeySet |-> confidence]]
  IN  [self EXCEPT
        !.state_history = DequeAppend(@, prediction, StateHistoryMaxLen(config)),
        !.confidence_history = DequeAppend(@, confidence, ConfidenceHistoryMaxLen),
        !.transition_count = IF state # self.last_state THEN @ + 1 ELSE @,
        !.last_state = state]

\* Faulty variant of _update_history: last_state is not updated.
_update_history_KeepsLastState(config, self, state, confidence) ==
  LET prediction == [state |-> state, confidence |-> confidence,
                     raw_scores |-> EmptyDict]
  IN  [self EXCEPT
        !.state_history = DequeAppend(@, prediction, StateHistoryMaxLen(config)),
        !.confidence_history = DequeAppend(@, confidence, ConfidenceHistoryMaxLen),
        !.transition_count = IF state # self.last_state THEN @ + 1 ELSE @]

_update_history(config, self, state, confidence) ==
  LET prediction == [state |-> state, confidence |-> confidence,
                     raw_scores |-> EmptyDict]
  IN  [self EXCEPT
        !.state_history = DequeAppend(@, prediction, StateHistoryMaxLen(config)),
        !.confidence_history = DequeAppend(@, confidence, ConfidenceHistoryMaxLen),
        !.transition_count = IF state # self.last_state THEN @ + 1 ELSE @,
        !.last_state = state]

NoScores == [k \in ScoreKeySet |-> QZero]

\* What one call leaves behind: the exception raised (or "none"), the
\* returned StatePrediction (state, confidence, raw_scores), the locals
\* smoothed_scores and the fatigue flag, and the engine state after it.
Raised(e, self, raw, smoothed) ==
  [exc |-> e, state |-> "Neutral", confidence |-> QZero, raw_scores |-> raw,
   smoothed_scores |-> smoothed, fatigue |-> FALSE, self |-> self]

\* lines 108-117: history update and the returned prediction
Finish(config, self, raw_scores, smoothed_scores, fatigue, final) ==
  IF final.exc # "none"
  THEN Raised(final.exc, self, raw_scores, smoothed_scores)
  ELSE [exc |-> "none", state |-> final.state,
        confidence |-> final.confidence, raw_scores |-> raw_scores,
        smoothed_scores |-> smoothed_scores, fatigue |-> fatigue,
        self |-> _update_history(config, self, final.state, final.confidence)]

\* lines 81-106: the fatigue override, or else argmax and rejection
Decide(config, raw_scores, smoothed_scores, fat) ==
  IF fat.exc # "none"
  THEN Raised(fat.exc, fat.self, raw_scores, smoothed_scores)
  ELSE Finish(config, fat.self, raw_scores, smoothed_scores, fat.ret,
              IF fat.ret
              THEN [exc |-> "none"] @@ FatigueOverride(smoothed_scores)
              ELSE RejectionPolicy(config, smoothed_scores))

\* line 81: the fatigue detector runs on the smoothed scores
Smoothed(config, self, features, t, raw_scores, sm) ==
  IF sm.exc # "none" THEN Raised(sm.exc, self, raw_scores, NoScores)
  ELSE Decide(config, raw_scores, sm.v,
              _detect_fatigue(config, self, features, sm.v, t))

\* line 78: smoothing of the raw scores
Scored(config, self, features, t, raw) ==
  IF raw.exc # "none" THEN Raised(raw.exc, self, NoScores, NoScores)
  ELSE Smoothed(config, self, features, t, raw.v,
                _apply_smoothing(config, self, raw.v))

\* RuleBasedDetector.predict_state; t is the value of time.time()
predict_state(config, self, features, t) ==
  Scored(config, self, features, t, _calculate_raw_scores(config, features))

\* predict_state with the trend estimate of lines 229-236 left open: rate
\* is the value self.rms_decline_rate holds when the conditions of lines
\* 239-243 are tested.  The code's own estimate (the stored value, or 0) is
\* one of the values rate may take.
TrendSmoothed(config, self, features, t, rate, raw_scores, sm) ==
  IF sm.exc # "none" THEN Raised(sm.exc, self, raw_scores, NoScores)
  ELSE Decide(config, raw_scores, sm.v,
              FatigueTimer(config, [self EXCEPT !.rms_decline_rate = rate],
                           features, t))

TrendScored(config, self, features, t, rate, raw) ==
  IF raw.exc # "none" THEN Raised(raw.exc, self, NoScores, NoScores)
  ELSE TrendSmoothed(config, self, features, t, rate, raw.v,
                     _apply_smoothing(config, self, raw.v))

PredictStateGivenTrend(config, self, features, t, rate) ==
  TrendScored(config, self, features, t, rate,
              _calculate_raw_scores(config, features))

\* Faulty variant of get_state_statistics: total_predictions is taken from
\* confidence_history.
get_state_statistics_ConfidenceLength(self) ==
  IF Len(self.state_history) = 0 THEN EmptyDict
  ELSE
    LET n == Len(self.state_history)
        seen == {self.state_history[i].state : i \in 1..n}
        count(s) == Cardinality({i \in 1..n : self.state_history[i].state = s})
        total == Len(self.confidence_history)
        state_distribution == [s \in seen |-> Q(count(s), total)]
    IN  [total_predictions |-> total,
         state_distribution |-> state_distribution,
         average_confidence |-> QZero,
         transition_rate |-> Q(self.transition_count, total),
         most_common_state |->
           CHOOSE s \in seen :
             \A r \in seen : QLe(state_distribution[r], state_distribution[s])]

\* RuleBasedDetector.get_state_statistics: {} on an empty history
get_state_statistics(self) ==
  IF Len(self.state_history) = 0 THEN EmptyDict
  ELSE
    LET n == Len(self.state_history)
        seen == {self.state_history[i].state : i \in 1..n}
        count(s) == Cardinality({i \in 1..n : self.state_history[i].state = s})
        state_distribution == [s \in seen |-> Q(count(s), n)]
        first(s) == CHOOSE i \in 1..n :
                      /\ self.state_history[i].state = s
                      /\ \A j \in 1..(i - 1) : self.state_history[j].state # s
        RECURSIVE Sum(_)
        Sum(k) == IF k = 0 THEN QZero
                  ELSE QAdd(Sum(k - 1), self.confidence_history[k])
        m == Len(self.confidence_history)
    IN  [total_predictions |-> n,
         state_distribution |-> state_distribution,
         average_confidence |-> IF m > 0 THEN QDiv(Sum(m), QInt(m)) ELSE QZero,
         transition_rate |-> Q(self.transition_count, IF n > 1 THEN n ELSE 1),
         most_common_state |->
           CHOOSE s \in seen :
             /\ \A r \in seen : QLe(state_distribution[r], state_distribution[s])
             /\ \A r \in seen : first(r) < first(s)
                  => QLt(state_distribution[r], state_distribution[s])]

\* Faulty variant of reset_history: transition_count and last_state are
\* not reset.
reset_history_KeepsTransitions(self) ==
  [self EXCEPT !.state_history = <<>>,
               !.confidence_history = <<>>,
               !.fatigue_start_time = NoTime,
               !.rms_decline_rate = QZero]

\* RuleBasedDetector.reset_history
reset_history(self) ==
  [self EXCEPT !.state_history = <<>>,
               !.confidence_history = <<>>,
               !.transition_count = 0,
               !.last_state = "Neutral",
               !.fatigue_start_time = NoTime,
               !.rms_decline_rate = QZero]

\* Faulty variant of OtherDetectorAfter: the two deques are class
\* attributes, shared by every instance.
OtherDetectorAfter_ClassLevelDeques(other, written) ==
  [other EXCEPT !.state_history = written.state_history,
                !.confidence_history = written.confidence_history]

\* The fields of another detector after this detector's fields became
\* written: __init__ creates both deques and every other field on the
\* instance, and every later write goes through self.
OtherDetectorAfter(other, written) == other

(***************************************************************************)
(* class EnsembleDetector                                                  *)
(***************************************************************************)
DictGet(d, k, default) == IF k \in DOMAIN d THEN d[k] ELSE default

\* ensemble_weights
WeightRule == Q(8, 10)
WeightMl == Q(2, 10)

RECURSIVE SumOver(_, _)
SumOver(d, keys) ==
  IF keys = {} THEN QZero
  ELSE LET k == CHOOSE k \in keys : TRUE
       IN  QAdd(d[k], SumOver(d, keys \ {k}))

\* Faulty variant of _ensemble_predictions: the loop runs over the keys of
\* rule_scores only.
_ensemble_predictions_RuleKeysOnly(rule_scores, ml_scores) ==
  IF DOMAIN ml_scores = {} THEN rule_scores
  ELSE
    LET all_states == DOMAIN rule_scores
        ensemble_scores ==
          [s \in all_states |->
             QAdd(QMul(WeightRule, DictGet(rule_scores, s, QZero)),
                  QMul(WeightMl, DictGet(ml_scores, s, QZero)))]
        total == SumOver(ensemble_scores, all_states)
    IN  IF QLt(QZero, total)
        THEN [s \in all_states |-> QDiv(ensemble_scores[s], total)]
        ELSE ensemble_scores

\* A score mapping handed to _ensemble_predictions, after the call: it is
\* read with .keys() and .get only.
ScoresAfter(scores) == scores

_ensemble_predictions(rule_scores, ml_scores) ==
  IF DOMAIN ml_scores = {} THEN rule_scores
  ELSE
    LET all_states == DOMAIN rule_scores \cup DOMAIN ml_scores
        ensemble_scores ==
          [s \in all_states |->
             QAdd(QMul(WeightRule, DictGet(rule_scores, s, QZero)),
                  QMul(WeightMl, DictGet(ml_scores, s, QZero)))]
        total == SumOver(ensemble_scores, all_states)
    IN  IF QLt(QZero, total)
        THEN [s \in all_states |-> QDiv(ensemble_scores[s], total)]
        ELSE ensemble_scores

\* EnsembleDetector.predict_state: [exc, state, confidence, rule], rule
\* being the outcome of the inner rule_based_detector.predict_state call
\* lines 412-431: argmax over the combined scores
\* Faulty variant of EnsembleFinal: the rule detector's decision is
\* returned.
EnsembleFinal_RuleDecision(rule, final_scores) ==
  [exc |-> "none", state |-> rule.state, confidence |-> rule.confidence,
   rule |-> rule]

EnsembleFinal(rule, final_scores) ==
  [exc |-> "none",
   state |-> state_mapping(ArgMax(final_scores)),
   confidence |-> final_scores[ArgMax(final_scores)],
   rule |-> rule]

\* lines 402-410: ml_scores = {} and the combination
EnsembleOf(rule) ==
  IF rule.exc # "none"
  THEN [exc |-> rule.exc, state |-> "Neutral", confidence |-> QZero,
        rule |-> rule]
  ELSE EnsembleFinal(rule, _ensemble_predictions(rule.raw_scores, EmptyDict))

EnsemblePredictState(config, self, features, t) ==
  EnsembleOf(predict_state(config, self, features, t))

(***************************************************************************)
(* Configurations and inputs the model runs on                             *)
(***************************************************************************)
\* A complete configuration (every required key present).
BaseConfig ==
  [k \in RequiredKeys |->
     CASE k = "relaxed.rms_max" -> Q(3, 10)
       [] k = "relaxed.gsr_max" -> Q(3, 10)
       [] k = "focused.rms_min" -> Q(3, 10)
       [] k = "focused.rms_max" -> Q(6, 10)
       [] k = "focused.gsr_min" -> Q(3, 10)
       [] k = "focused.gsr_max" -> Q(6, 10)
       [] k = "focused.mdf_min" -> Q(5, 10)
       [] k = "stressed.rms_min" -> Q(6, 10)
       [] k = "stressed.gsr_min" -> Q(5, 10)
       [] k = "stressed.mdf_min" -> Q(6, 10)
       [] k = "fatigued.mdf_max" -> Q(4, 10)
       [] k = "fatigued.duration_min" -> QInt(2)
       [] k = "smoothing.alpha" -> Q(3, 10)
       [] k = "smoothing.voting_window_sec" -> Q(2, 10)
       [] OTHER -> Q(5, 8)]

Without(config, key) == [k \in DOMAIN config \ {key} |-> config[k]]

With(config, key, value) ==
  [k \in DOMAIN config \cup {key} |-> IF k = key THEN value ELSE config[k]]

\* Complete configurations: the rejection threshold equal to a best score
\* that occurs (5/8) with alpha 0.3, and a threshold above every Relaxed
\* and Focused score (0.7) with alpha 1.
CompleteConfigs ==
  {BaseConfig,
   With(With(BaseConfig, "smoothing.rejection_threshold", Q(7, 10)),
        "smoothing.alpha", QOne)}

\* Configurations lacking one required key.
MissingKeys ==
  {"smoothing.voting_window_sec", "relaxed.rms_max", "focused.mdf_min",
   "fatigued.duration_min", "smoothing.rejection_threshold"}

ConfigSet == CompleteConfigs \cup {Without(BaseConfig, k) : k \in MissingKeys}

\* Complete configurations with other thresholds.  LowReject keeps every
\* best state (threshold 0.3).  TieConfig moves the focused band to
\* [0.1, 0.2] so that the mapping {} (every feature read as 0.5) scores
\* stressed and fatigued equal and highest.  DegenerateRms and
\* DegenerateGsr have a focused band of width 0 (rms_min = rms_max = 0.3,
\* gsr_min = gsr_max = 0.4).
LowReject == With(BaseConfig, "smoothing.rejection_threshold", Q(3, 10))

TieConfig ==
  With(With(With(With(LowReject, "focused.rms_min", Q(1, 10)),
                 "focused.rms_max", Q(2, 10)),
            "focused.gsr_min", Q(1, 10)),
       "focused.gsr_max", Q(2, 10))

DegenerateRms == With(BaseConfig, "focused.rms_max", Q(3, 10))

DegenerateGsr ==
  With(With(LowReject, "focused.gsr_min", Q(4, 10)), "focused.gsr_max", Q(4, 10))

ThresholdConfigs ==
  {BaseConfig, LowReject, TieConfig, DegenerateRms, DegenerateGsr}

Features(rms, mdf, gsr_tonic) ==
  [k \in {"rms", "mdf", "gsr_tonic"} |->
     CASE k = "rms" -> rms [] k = "mdf" -> mdf [] OTHER -> gsr_tonic]

\* Feature mappings fed to predict_state: the four cases of the module's
\* own test, and mappings lacking keys.
FeatureSet ==
  {Features(Q(1, 10), Q(3, 10), Q(3, 20)),
   Features(Q(4, 10), Q(7, 10), Q(4, 10)),
   Features(Q(8, 10), Q(8, 10), Q(7, 10)),
   Features(Q(2, 10), Q(2, 10), Q(3, 10)),
   EmptyDict,
   [k \in {"rms"} |-> Q(1, 10)],
   [k \in {"mdf", "gsr_tonic"} |-> IF k = "mdf" THEN Q(2, 10) ELSE Q(7, 10)]}

\* A stream of low-activity samples (mdf 0.2, gsr 0.3) whose rms is one of
\* 0.25, 0.20, 0.15, 0.10, 0.05, and one sample that lacks mdf (read as
\* 0.5, which is not below fatigued.mdf_max).
StreamFeatures ==
  {Features(Q(r, 20), Q(2, 10), Q(3, 10)) : r \in 1..5}
    \cup {[k \in {"rms", "gsr_tonic"} |->
            IF k = "rms" THEN Q(5, 20) ELSE Q(3, 10)]}

\* Bounds
MaxCalls == 3
MaxStreamCalls == 21
MaxTime == 3
MaxThresholdCalls == 3
MaxPairCalls == 2
MaxTrendCalls == 4
MaxStatisticsCalls == 3

(***************************************************************************)
(* State                                                                   *)
(***************************************************************************)
VARIABLES
  config,              \* the dict handed to the constructor
  constructed,         \* "ok", or the exception __init__ raised
  state_history,       \* self.state_history
  confidence_history,  \* self.confidence_history
  fatigue_start_time,  \* self.fatigue_start_time
  rms_decline_rate,    \* self.rms_decline_rate
  transition_count,    \* self.transition_count
  last_state,          \* self.last_state
  now,                 \* the clock read by time.time()
  ncalls,              \* predict_state calls since construction or reset
  ret,                 \* the last call: its arguments, locals and result
  last_smoothed,       \* observer: smoothed_scores of the preceding call
  qual_start,          \* observer: start of the run of qualifying calls
  decl_run,            \* observer: the run of declining low-rms calls
  tally,               \* observer: returned states that differ from the one before
  peer,                \* the fields of a second detector built from config
  peer_ret,            \* the last call on the second detector
  solo                 \* observer: each detector's calls replayed on their own

vars == <<config, constructed, state_history, confidence_history,
          fatigue_start_time, rms_decline_rate, transition_count, last_state,
          now, ncalls, ret, last_smoothed, qual_start, decl_run, tally,
          peer, peer_ret, solo>>

Self ==
  [state_history |-> state_history,
   confidence_history |-> confidence_history,
   fatigue_start_time |-> fatigue_start_time,
   rms_decline_rate |-> rms_decline_rate,
   transition_count |-> transition_count,
   last_state |-> last_state]

SetSelf(s) ==
  /\ state_history' = s.state_history
  /\ confidence_history' = s.confidence_history
  /\ fatigue_start_time' = s.fatigue_start_time
  /\ rms_decline_rate' = s.rms_decline_rate
  /\ transition_count' = s.transition_count
  /\ last_state' = s.last_state

NoRun == [start |-> NoTime, rms |-> QZero, n |-> 0, since |-> NoTime]

NoCall ==
  [op |-> "init", features |-> EmptyDict, exc |-> "none",
   state |-> "Neutral", confidence |-> QZero,
   raw_scores |-> NoScores, smoothed_scores |-> NoScores, fatigue |-> FALSE,
   ens_state |-> "Neutral", ens_confidence |-> QZero,
   first |-> FALSE, prev_smoothed |-> EmptyDict, trend_updated |-> FALSE,
   stats |-> EmptyDict, calls_before |-> 0,
   features_after |-> EmptyDict, call |-> EmptyDict]

NoTally == [prev |-> "Neutral", changes |-> 0]

NoOutcome ==
  [exc |-> "none", state |-> "Neutral", confidence |-> QZero,
   ens_state |-> "Neutral", ens_confidence |-> QZero]

\* who: the detector called last (0: none yet); one, two: the fields each
\* detector has when only its own calls are run; out: what the last call
\* returns in that run; peer_calls: calls on the second detector since its
\* reset; switches: how often the caller moved from one detector to the
\* other (counted up to 2).
NoSolo ==
  [who |-> 0, one |-> InitialEngineState, two |-> InitialEngineState,
   out |-> NoOutcome, peer_calls |-> 0, switches |-> 0]

InitWith(configs) ==
  /\ config \in configs
  /\ constructed = Construct(config)
  /\ state_history = InitialEngineState.state_history
  /\ confidence_history = InitialEngineState.confidence_history
  /\ fatigue_start_time = InitialEngineState.fatigue_start_time
  /\ rms_decline_rate = InitialEngineState.rms_decline_rate
  /\ transition_count = InitialEngineState.transition_count
  /\ last_state = InitialEngineState.last_state
  /\ now = 0
  /\ ncalls = 0
  /\ ret = NoCall
  /\ last_smoothed = EmptyDict
  /\ qual_start = NoTime
  /\ decl_run = NoRun
  /\ tally = NoTally
  /\ peer = InitialEngineState
  /\ peer_ret = NoOutcome
  /\ solo = NoSolo

Init == InitWith(ConfigSet)

(***************************************************************************)
(* Observers of the input stream (read by no operation of the detector)    *)
(***************************************************************************)
\* The three qualifying conditions, as read by the call that just ran.
Qualifying(features, rate) ==
  /\ Has(config, "fatigued.mdf_max")
  /\ QLt(FeatureGet(features, "mdf"), config["fatigued.mdf_max"])
  /\ QLt(FeatureGet(features, "rms"), Q(3, 10))
  /\ QLt(rate, Q(-2, 100))

\* Start of the uninterrupted run of qualifying calls that ends with the
\* call at time t.
NextQualStart(features, rate, t) ==
  IF Qualifying(features, rate)
  THEN IF qual_start = NoTime THEN t ELSE qual_start
  ELSE NoTime

\* The run of calls with mdf < mdf_max and rms < 0.3 whose rms falls from
\* each call to the next by at least 0.05: start, last rms and length n of
\* the run that ends with the call at time t.  since is the time of the
\* first call of the run that had two predecessors in the run (the rms
\* fell by 0.1 over three samples, a trend of -0.033 per sample, below
\* -0.02) and on which the detector recomputed its trend.
NextDeclRun(features, t) ==
  LET rms == FeatureGet(features, "rms")
      low == /\ Has(config, "fatigued.mdf_max")
             /\ QLt(FeatureGet(features, "mdf"), config["fatigued.mdf_max"])
             /\ QLt(rms, Q(3, 10))
      recomputed == Len(confidence_history) >= TrendMinHistory
  IN  IF ~low THEN NoRun
      ELSE IF decl_run.start # NoTime /\ QLe(rms, QSub(decl_run.rms, Q(1, 20)))
      THEN [start |-> decl_run.start, rms |-> rms, n |-> decl_run.n + 1,
            since |-> IF decl_run.since # NoTime THEN decl_run.since
                      ELSE IF decl_run.n + 1 >= 3 /\ recomputed THEN t
                      ELSE NoTime]
      ELSE [start |-> t, rms |-> rms, n |-> 1, since |-> NoTime]

\* The states returned since construction or reset: the last one (Neutral
\* before the first call) and how many differed from the one before.
NextTally(out) ==
  IF out.exc # "none" THEN tally
  ELSE [prev |-> out.state,
        changes |-> IF out.state # tally.prev THEN tally.changes + 1
                    ELSE tally.changes]

(***************************************************************************)
(* Operations                                                              *)
(***************************************************************************)
Observe(op, features, out, ens) ==
  [op |-> op, features |-> features, exc |-> out.exc,
   state |-> out.state, confidence |-> out.confidence,
   raw_scores |-> out.raw_scores, smoothed_scores |-> out.smoothed_scores,
   fatigue |-> out.fatigue,
   ens_state |-> ens.state, ens_confidence |-> ens.confidence,
   first |-> Len(state_history) = 0,
   prev_smoothed |-> last_smoothed,
   trend_updated |-> Len(confidence_history) >= TrendMinHistory,
   stats |-> EmptyDict, calls_before |-> ncalls,
   features_after |-> FeaturesAfter(features), call |-> EmptyDict]

\* A call at time t; ens is what the called method returned, ens.rule what
\* RuleBasedDetector.predict_state returned.
Called(op, features, t, ens) ==
  /\ ret' = Observe(op, features, ens.rule, ens)
  /\ now' = t
  /\ SetSelf(ens.rule.self)
  /\ ncalls' = IF ens.rule.exc = "none" THEN ncalls + 1 ELSE ncalls
  /\ last_smoothed' = IF ens.rule.exc = "none" THEN ens.rule.smoothed_scores
                      ELSE last_smoothed
  /\ qual_start' = NextQualStart(features, ens.rule.self.rms_decline_rate, t)
  /\ decl_run' = NextDeclRun(features, t)
  /\ tally' = NextTally(ens.rule)
  /\ UNCHANGED <<config, constructed>>

\* detector.predict_state(features, {}, {}) on a RuleBasedDetector
PredictState(features, bound, clock) ==
  /\ constructed = "ok"
  /\ ncalls < bound
  /\ \E t \in clock :
       Called("predict", features, t,
              [rule |-> predict_state(config, Self, features, t),
               state |-> "Neutral", confidence |-> QZero])
  /\ UNCHANGED <<peer, peer_ret, solo>>

\* detector.predict_state(features, {}, {}) on the EnsembleDetector that
\* owns the rule detector
EnsemblePredict(features, bound, clock) ==
  /\ constructed = "ok"
  /\ ncalls < bound
  /\ \E t \in clock :
       Called("ensemble", features, t,
              EnsemblePredictState(config, Self, features, t))
  /\ UNCHANGED <<peer, peer_ret, solo>>

GetStateStatistics ==
  /\ constructed = "ok"
  /\ ret' = [NoCall EXCEPT !.op = "stats",
                           !.stats = get_state_statistics(Self),
                           !.calls_before = ncalls]
  /\ UNCHANGED <<config, constructed, state_history, confidence_history,
                 fatigue_start_time, rms_decline_rate, transition_count,
                 last_state, now, ncalls, last_smoothed, qual_start, decl_run,
                 tally, peer, peer_ret, solo>>

ResetHistory ==
  /\ constructed = "ok"
  /\ SetSelf(reset_history(Self))
  /\ ncalls' = 0
  /\ ret' = [NoCall EXCEPT !.op = "reset", !.calls_before = ncalls]
  /\ last_smoothed' = EmptyDict
  /\ qual_start' = NoTime
  /\ decl_run' = NoRun
  /\ tally' = NoTally
  /\ UNCHANGED <<config, constructed, now, peer, peer_ret, solo>>

\* Short runs on every feature mapping and every configuration; all calls
\* of a run read the same clock value.
Next ==
  \/ \E f \in FeatureSet : PredictState(f, MaxCalls, {now})
  \/ \E f \in FeatureSet : EnsemblePredict(f, MaxCalls, {now})
  \/ GetStateStatistics
  \/ ResetHistory

Spec == Init /\ [][Next]_vars

\* Long runs on the low-activity stream, complete configurations only; the
\* clock advances by any amount between calls, up to MaxTime.
InitStream == InitWith(CompleteConfigs)

NextStream ==
  \/ \E f \in StreamFeatures : PredictState(f, MaxStreamCalls, now..MaxTime)
  \/ ResetHistory

SpecStream == InitStream /\ [][NextStream]_vars

\* Short runs on complete configurations with other thresholds.
InitThresholds == InitWith(ThresholdConfigs)

NextThresholds ==
  \/ \E f \in FeatureSet : PredictState(f, MaxThresholdCalls, {now})
  \/ \E f \in FeatureSet : EnsemblePredict(f, MaxThresholdCalls, {now})
  \/ ResetHistory

SpecThresholds == InitThresholds /\ [][NextThresholds]_vars

\* Predictions, statistics and resets on detectors whose state_history
\* holds 2 or 3 entries (voting_window_sec 0.2 or 0.3), with rejection
\* thresholds 0.625 and 0.3.
WideWindow == With(LowReject, "smoothing.voting_window_sec", Q(3, 10))

StatisticsConfigs == {BaseConfig, LowReject, WideWindow}

StatisticsFeatures ==
  {Features(Q(1, 10), Q(3, 10), Q(3, 20)),
   Features(Q(4, 10), Q(7, 10), Q(4, 10)),
   Features(Q(8, 10), Q(8, 10), Q(7, 10)),
   [k \in {"rms"} |-> Q(1, 10)]}

InitStatistics == InitWith(StatisticsConfigs)

NextStatistics ==
  \/ \E f \in StatisticsFeatures : PredictState(f, MaxStatisticsCalls, {now})
  \/ \E f \in StatisticsFeatures : EnsemblePredict(f, MaxStatisticsCalls, {now})
  \/ GetStateStatistics
  \/ ResetHistory

SpecStatistics == InitStatistics /\ [][NextStatistics]_vars

\* The score functions and the first prediction of a fresh detector over a
\* grid of feature values, 0 to 1 in tenths and one value on either side.
HighReject == With(BaseConfig, "smoothing.rejection_threshold", Q(4, 5))

ShiftedConfig ==
  With(With(With(With(LowReject, "relaxed.rms_max", Q(1, 2)),
                 "stressed.rms_min", Q(1, 5)),
            "stressed.gsr_min", Q(1, 10)),
       "stressed.mdf_min", Q(1, 5))

ScoringConfigs == ThresholdConfigs \cup {HighReject, ShiftedConfig}

GridValues == {Q(k, 10) : k \in 0..10} \cup {Q(-1, 2), Q(3, 2)}

GridFeatures ==
  {Features(rms, mdf, gsr_tonic) :
     rms \in GridValues, mdf \in GridValues, gsr_tonic \in GridValues}

\* The three score functions applied to one mapping.
ScoreStep(features) ==
  /\ constructed = "ok"
  /\ ret.op = "init"
  /\ ret' = [NoCall EXCEPT !.op = "score", !.features = features,
                           !.call = PreScores(config, features)]
  /\ UNCHANGED <<config, constructed, state_history, confidence_history,
                 fatigue_start_time, rms_decline_rate, transition_count,
                 last_state, now, ncalls, last_smoothed, qual_start, decl_run,
                 tally, peer, peer_ret, solo>>

\* The first predict_state call of a fresh detector.
PredictFresh(features) ==
  /\ ret.op = "init"
  /\ PredictState(features, 1, {now})

InitScoring == InitWith(ScoringConfigs)

NextScoring ==
  \/ \E f \in GridFeatures : ScoreStep(f)
  \/ \E f \in GridFeatures : PredictFresh(f)

SpecScoring == InitScoring /\ [][NextScoring]_vars

\* _ensemble_predictions applied to a rule score set and a non-empty
\* secondary score set.
RuleScoreSets ==
  {_calculate_raw_scores(BaseConfig, f).v : f \in FeatureSet}
    \cup {NoScores, EmptyDict}

MlScoreSets ==
  UNION {[keys -> {QZero, Q(1, 2), QOne}] :
           keys \in (SUBSET {"relaxed", "stressed", "neutral"}) \ {{}}}

Combine(rule_scores, ml_scores) ==
  /\ ret.op = "init"
  /\ ret' = [NoCall EXCEPT
               !.op = "combine",
               !.call = [rule_scores |-> rule_scores,
                         ml_scores |-> ml_scores,
                         out |-> _ensemble_predictions(rule_scores, ml_scores),
                         rule_after |-> ScoresAfter(rule_scores),
                         ml_after |-> ScoresAfter(ml_scores)]]
  /\ UNCHANGED <<config, constructed, state_history, confidence_history,
                 fatigue_start_time, rms_decline_rate, transition_count,
                 last_state, now, ncalls, last_smoothed, qual_start, decl_run,
                 tally, peer, peer_ret, solo>>

InitCombine == InitWith({BaseConfig})

NextCombine ==
  \E rule_scores \in RuleScoreSets, ml_scores \in MlScoreSets :
    Combine(rule_scores, ml_scores)

SpecCombine == InitCombine /\ [][NextCombine]_vars

\* The combined path run twice on the same inputs, in two interpreter
\* processes.  all_states is a set of str: its iteration order, and with it
\* the key order of ensemble_scores, follows the string hashes, which are
\* salted per process, so each run may visit the keys in any order.
KeyOrders(keys) ==
  {order \in [1..Cardinality(keys) -> keys] :
     \A k \in keys : \E i \in DOMAIN order : order[i] = k}

\* max(final_scores, key=final_scores.get) over a dict with the given key
\* order: the first key whose score no other key's score exceeds.
OrderedArgMax(scores, order) ==
  LET best == CHOOSE i \in DOMAIN order :
                /\ \A j \in DOMAIN order :
                     QLe(scores[order[j]], scores[order[i]])
                /\ \A j \in 1..(i - 1) :
                     QLt(scores[order[j]], scores[order[i]])
  IN  order[best]

OrderRuleScores ==
  {_calculate_raw_scores(TieConfig, Features(Q(1, 10), Q(3, 10), Q(3, 20))).v,
   _calculate_raw_scores(BaseConfig, Features(Q(4, 10), Q(7, 10), Q(4, 10))).v,
   _calculate_raw_scores(BaseConfig, EmptyDict).v}

OrderMlScores ==
  {[k \in {"relaxed", "focused"} |-> Q(1, 2)],
   [k \in {"stressed"} |-> QZero],
   [k \in {"relaxed"} |-> QOne]}

CombineTwice(rule_scores, ml_scores) ==
  /\ ret.op = "init"
  /\ LET final_scores == _ensemble_predictions(rule_scores, ml_scores)
     IN  \E order \in KeyOrders(DOMAIN final_scores),
            again \in KeyOrders(DOMAIN final_scores) :
           ret' = [NoCall EXCEPT
                     !.op = "combine twice",
                     !.call = [rule_scores |-> rule_scores,
                               ml_scores |-> ml_scores,
                               out |-> final_scores,
                               order |-> order,
                               best |-> OrderedArgMax(final_scores, order),
                               order_again |-> again,
                               best_again |->
                                 OrderedArgMax(final_scores, again)]]
  /\ UNCHANGED <<config, constructed, state_history, confidence_history,
                 fatigue_start_time, rms_decline_rate, transition_count,
                 last_state, now, ncalls, last_smoothed, qual_start, decl_run,
                 tally, peer, peer_ret, solo>>

InitOrder == InitWith({BaseConfig})

NextOrder ==
  \E rule_scores \in OrderRuleScores, ml_scores \in OrderMlScores :
    CombineTwice(rule_scores, ml_scores)

SpecOrder == InitOrder /\ [][NextOrder]_vars

\* The fatigue timer under any trend estimate: runs on the low-activity
\* stream in which the trend written to rms_decline_rate is 0, -0.02 or
\* -0.05 on each call, the clock advancing by any amount up to MaxTime.
\* Every run of predict_state on this stream is one of these runs (the
\* one whose trend is the code's own estimate, 0).
TrendValues == {QZero, Q(-2, 100), Q(-5, 100)}

\* Two low-activity samples (rms 0.25 and 0.20, mdf 0.2) and the sample
\* that lacks mdf.
TrendFeatures ==
  {Features(Q(5, 20), Q(2, 10), Q(3, 10)),
   Features(Q(4, 20), Q(2, 10), Q(3, 10)),
   [k \in {"rms", "gsr_tonic"} |-> IF k = "rms" THEN Q(5, 20) ELSE Q(3, 10)]}

TrendPredict(features, rate) ==
  /\ constructed = "ok"
  /\ ncalls < MaxTrendCalls
  /\ \E t \in now..MaxTime :
       Called("predict", features, t,
              [rule |-> PredictStateGivenTrend(config, Self, features, t, rate),
               state |-> "Neutral", confidence |-> QZero])
  /\ UNCHANGED <<peer, peer_ret, solo>>

InitTrend == InitWith(CompleteConfigs)

NextTrend ==
  \/ \E f \in TrendFeatures, rate \in TrendValues : TrendPredict(f, rate)
  \/ ResetHistory

SpecTrend == InitTrend /\ [][NextTrend]_vars

(***************************************************************************)
(* Two detectors built from the same config: the first is the              *)
(* EnsembleDetector of the variables above (with the rule detector it      *)
(* owns), the second a RuleBasedDetector whose fields are peer.  Their     *)
(* calls interleave in any order.                                          *)
(***************************************************************************)
OutcomeOf(ens) ==
  [exc |-> ens.exc, state |-> ens.rule.state,
   confidence |-> ens.rule.confidence,
   ens_state |-> ens.state, ens_confidence |-> ens.confidence]

RuleOutcomeOf(out) ==
  [exc |-> out.exc, state |-> out.state, confidence |-> out.confidence,
   ens_state |-> "Neutral", ens_confidence |-> QZero]

Switched(who) ==
  IF solo.who \notin {0, who} /\ solo.switches < 2 THEN solo.switches + 1
  ELSE solo.switches

\* ens: the call on the first detector; alone: the same call in the run of
\* the first detector's calls only
PairCalledOne(features, ens, alone) ==
  /\ Called("ensemble", features, now, ens)
  /\ peer' = OtherDetectorAfter(peer, ens.rule.self)
  /\ peer_ret' = peer_ret
  /\ solo' = [solo EXCEPT !.who = 1, !.one = alone.rule.self,
                          !.out = OutcomeOf(alone),
                          !.switches = Switched(1)]

PairPredictOne(features) ==
  /\ constructed = "ok"
  /\ ncalls < MaxPairCalls
  /\ PairCalledOne(features,
                   EnsemblePredictState(config, Self, features, now),
                   EnsemblePredictState(config, solo.one, features, now))

\* out: the call on the second detector; alone: the same call in the run
\* of the second detector's calls only
PairCalledPeer(out, alone) ==
  /\ peer' = out.self
  /\ peer_ret' = RuleOutcomeOf(out)
  /\ SetSelf(OtherDetectorAfter(Self, out.self))
  /\ solo' = [solo EXCEPT !.who = 2, !.two = alone.self,
                          !.out = RuleOutcomeOf(alone),
                          !.peer_calls = @ + 1,
                          !.switches = Switched(2)]
  /\ UNCHANGED <<config, constructed, now, ncalls, ret, last_smoothed,
                 qual_start, decl_run, tally>>

PairPredictPeer(features) ==
  /\ constructed = "ok"
  /\ solo.peer_calls < MaxPairCalls
  /\ PairCalledPeer(predict_state(config, peer, features, now),
                    predict_state(config, solo.two, features, now))

PairResetOne ==
  /\ constructed = "ok"
  /\ SetSelf(reset_history(Self))
  /\ peer' = OtherDetectorAfter(peer, reset_history(Self))
  /\ ncalls' = 0
  /\ ret' = [NoCall EXCEPT !.op = "reset", !.calls_before = ncalls]
  /\ last_smoothed' = EmptyDict
  /\ qual_start' = NoTime
  /\ decl_run' = NoRun
  /\ tally' = NoTally
  /\ solo' = [solo EXCEPT !.who = 1, !.one = reset_history(solo.one),
                          !.out = NoOutcome, !.switches = Switched(1)]
  /\ UNCHANGED <<config, constructed, now, peer_ret>>

PairResetPeer ==
  /\ constructed = "ok"
  /\ peer' = reset_history(peer)
  /\ peer_ret' = NoOutcome
  /\ SetSelf(OtherDetectorAfter(Self, reset_history(peer)))
  /\ solo' = [solo EXCEPT !.who = 2, !.two = reset_history(solo.two),
                          !.out = NoOutcome, !.peer_calls = 0,
                          !.switches = Switched(2)]
  /\ UNCHANGED <<config, constructed, now, ncalls, ret, last_smoothed,
                 qual_start, decl_run, tally>>

PairConfigs == {BaseConfig, LowReject}

PairFeatures ==
  {Features(Q(1, 10), Q(3, 10), Q(3, 20)),
   Features(Q(4, 10), Q(7, 10), Q(4, 10)),
   Features(Q(8, 10), Q(8, 10), Q(7, 10))}

InitPair == InitWith(PairConfigs)

NextPair ==
  \/ \E f \in PairFeatures : PairPredictOne(f)
  \/ \E f \in PairFeatures : PairPredictPeer(f)
  \/ PairResetOne
  \/ PairResetPeer

SpecPair == InitPair /\ [][NextPair]_vars

(***************************************************************************)
(* Properties                                                              *)
(***************************************************************************)
Predicted == ret.op \in {"predict", "ensemble"} /\ ret.exc = "none"

Complete == RequiredKeys \subseteq DOMAIN config

\* C1. Rejection: on every predict_state call where the fatigue detector
\* did not fire, with best the argmax of the smoothed scores, the result is
\* Neutral with confidence 1 - scores[best] if scores[best] is below
\* rejection_threshold, and otherwise (equality included) the state named
\* by best with confidence scores[best].
C1_Rejection ==
  (Predicted /\ ~ret.fatigue) =>
    LET best == ArgMax(ret.smoothed_scores)
        score == ret.smoothed_scores[best]
    IN  IF QLt(score, config["smoothing.rejection_threshold"])
        THEN ret.state = "Neutral" /\ ret.confidence = QSub(QOne, score)
        ELSE ret.state = state_mapping(best) /\ ret.confidence = score

\* A call whose best smoothed score equals rejection_threshold exactly and
\* whose best state was kept.
C1_Witness ==
  /\ Predicted
  /\ ~ret.fatigue
  /\ ret.smoothed_scores[ArgMax(ret.smoothed_scores)]
       = config["smoothing.rejection_threshold"]
  /\ ret.state = "Relaxed"

\* C2. Ensemble passthrough: EnsembleDetector.predict_state returns the
\* state and the confidence that the rule pipeline (scoring, smoothing,
\* fatigue override, rejection) returned for that call.
C2_EnsemblePassthrough ==
  (ret.op = "ensemble" /\ ret.exc = "none") =>
    /\ ret.ens_state = ret.state
    /\ ret.ens_confidence = ret.confidence

C4_FatiguedAfterDuration ==
  (Predicted /\ decl_run.since # NoTime
     /\ QLt(config["fatigued.duration_min"], QInt(now - decl_run.since)))
    => ret.state = "Fatigued"

\* C5. Temporal smoothing: on the first call after construction or reset
\* the smoothed scores are the raw scores; on every later call each
\* smoothed score is alpha * raw + (1 - alpha) * previous, previous being
\* the smoothed score of the preceding call.
C5_Smoothing ==
  Predicted =>
    IF ret.calls_before = 0
    THEN ret.smoothed_scores = ret.raw_scores
    ELSE \A k \in ScoreKeySet :
           ret.smoothed_scores[k] =
             QAdd(QMul(config["smoothing.alpha"], ret.raw_scores[k]),
                  QMul(QSub(QOne, config["smoothing.alpha"]),
                       ret.prev_smoothed[k]))

\* C6. get_state_statistics right after reset_history, or on a fresh
\* detector, returns a record with total_predictions = 0 and
\* most_common_state = None.
C6_StatisticsAfterReset ==
  (ret.op = "stats" /\ ret.calls_before = 0) =>
    /\ {"total_predictions", "most_common_state"} \subseteq DOMAIN ret.stats
    /\ ret.stats["total_predictions"] = 0
    /\ ret.stats["most_common_state"] = "None"

\* C7. After reset_history every EngineState field has its construction
\* time value, whatever calls preceded the reset.
C7_ResetRestoresConstruction ==
  ret.op = "reset" => Self = InitialEngineState

\* A reset that followed at least two predictions.
C7_Witness ==
  /\ ret.op = "reset"
  /\ ret.calls_before >= 2

\* C8. Configuration errors are raised only at construction: a config
\* lacking a required key fails in the constructor, and no predict_state
\* call raises because of a missing key.
C8_ConfigErrorsAtConstruction ==
  /\ constructed = "ok" => Complete
  /\ ret.exc # "KeyError"

\* The feature mapping with every missing key set to 0.5.
Filled(features) ==
  [k \in {"rms", "mdf", "gsr_tonic"} |->
     IF k \in DOMAIN features THEN features[k] ELSE Q(1, 2)]

SameOutcome(a, b) ==
  /\ a.exc = b.exc
  /\ a.state = b.state
  /\ a.confidence = b.confidence

\* C9. A predict_state call on a feature mapping that lacks keys ends as
\* the same call on the mapping with each missing key set to 0.5 ends:
\* same state, same confidence, and no exception when the configuration is
\* complete.
C9_MissingFeatureDefault ==
  [][(ret'.op \in {"predict", "ensemble"} /\ ret' # ret) =>
       /\ SameOutcome(ret', predict_state(config, Self,
                                          Filled(ret'.features), now'))
       /\ Complete => ret'.exc = "none"]_vars

\* A second call, on a mapping that lacks two keys, that returned a
\* prediction.
C9_Witness ==
  /\ Predicted
  /\ ret.calls_before >= 1
  /\ Cardinality(DOMAIN ret.features) = 1

InUnitInterval(q) == QLe(QZero, q) /\ QLe(q, QOne)

\* C10. Every prediction returned by RuleBasedDetector.predict_state or
\* EnsembleDetector.predict_state has its state among the five EmotionState
\* values and its confidence in [0, 1].
C10_PredictionRange ==
  Predicted =>
    /\ ret.state \in EmotionState
    /\ InUnitInterval(ret.confidence)
    /\ ret.op = "ensemble" =>
         /\ ret.ens_state \in EmotionState
         /\ InUnitInterval(ret.ens_confidence)

\* An ensemble call whose inner rule prediction was rejected to Neutral.
C10_Witness ==
  /\ ret.op = "ensemble"
  /\ ret.exc = "none"
  /\ ret.state = "Neutral"
  /\ QLt(Q(1, 2), ret.confidence)

ScoreSum(scores) ==
  QAdd(QAdd(scores["relaxed"], scores["focused"]),
       QAdd(scores["stressed"], scores["fatigued"]))

\* C11. The scores returned by _calculate_raw_scores lie in [0, 1] and sum
\* to 1 (the placeholder makes the sum before normalisation nonzero); scores
\* whose sum is 0 are returned unchanged.
C11_NormalizedScores ==
  /\ Normalize(NoScores) = NoScores
  /\ Predicted =>
       /\ \A k \in ScoreKeySet : InUnitInterval(ret.raw_scores[k])
       /\ ScoreSum(ret.raw_scores) = QOne

\* A call whose focused score is 0 while its relaxed score is not.
C11_Witness ==
  /\ Predicted
  /\ ret.raw_scores["focused"] = QZero
  /\ QLt(QZero, ret.raw_scores["relaxed"])

\* C12. The mapping {rms 0.1, mdf 0.3, gsr_tonic 0.15} fed to a fresh
\* detector is classified as Relaxed with confidence >= 0.7.
C12_RelaxedScenario ==
  (Predicted /\ ret.op = "predict" /\ ret.calls_before = 0
     /\ ret.features = Features(Q(1, 10), Q(3, 10), Q(3, 20)))
    => /\ ret.state = "Relaxed"
       /\ QLe(Q(7, 10), ret.confidence)

\* C15. With a complete configuration no predict_state call ends in an
\* exception, a focused band of width 0 included.
C15_NeverRaises ==
  (Complete /\ ret.op \in {"predict", "ensemble"}) => ret.exc = "none"

\* C18. predict_state returns Fatigued only on calls where the fatigue
\* detector returned true: the argmax of the smoothed scores is never the
\* fatigued key, whose score never exceeds the stressed score.
C18_FatiguedOnlyByDetector ==
  Predicted =>
    /\ ret.state = "Fatigued" => ret.fatigue
    /\ ArgMax(ret.smoothed_scores) # "fatigued"
    /\ QLe(ret.smoothed_scores["fatigued"], ret.smoothed_scores["stressed"])

\* A call whose stressed and fatigued scores are equal and highest, and
\* which returned Stressed.
C18_Witness ==
  /\ Predicted
  /\ ~ret.fatigue
  /\ ret.smoothed_scores["stressed"] = ret.smoothed_scores["fatigued"]
  /\ \A k \in ScoreKeySet :
       QLe(ret.smoothed_scores[k], ret.smoothed_scores["stressed"])
  /\ ret.state = "Stressed"

Min(a, b) == IF a < b THEN a ELSE b

\* A buffer of the given capacity after one more entry: the oldest entry
\* leaves when the buffer is full.
Buffered(buffer, entry, capacity) ==
  IF capacity = 0 THEN <<>>
  ELSE IF Len(buffer) < capacity THEN buffer \o <<entry>>
  ELSE SubSeq(buffer, 2, Len(buffer)) \o <<entry>>

\* C13. Every predict_state call that returns appends one entry to
\* state_history and one to confidence_history, the oldest entry leaving a
\* full buffer; after n calls since construction or reset the lengths are
\* min(n, int(voting_window_sec * 10)) and min(n, 20).
C13_HistoryBuffers ==
  /\ [](constructed = "ok" =>
          /\ Len(state_history) =
               Min(ncalls, PyInt(QMul(config["smoothing.voting_window_sec"],
                                      QInt(10))))
          /\ Len(confidence_history) = Min(ncalls, 20))
  /\ [][ncalls' = ncalls + 1 =>
          /\ state_history' =
               Buffered(state_history,
                        [state |-> ret'.state, confidence |-> ret'.confidence,
                         raw_scores |-> EmptyDict],
                        PyInt(QMul(config["smoothing.voting_window_sec"],
                                   QInt(10))))
          /\ confidence_history' =
               Buffered(confidence_history, ret'.confidence, 20)]_vars

\* The call after the twentieth: confidence_history was full and stays at
\* 20 entries, state_history at its capacity of 2.
C13_Witness ==
  /\ Predicted
  /\ ret.calls_before >= 20
  /\ Len(confidence_history) = 20
  /\ Len(state_history) = 2

SoloRun ==
  /\ Self = solo.one
  /\ peer = solo.two
  /\ solo.who = 1 =>
       /\ solo.out.exc = ret.exc
       /\ solo.out.state = ret.state
       /\ solo.out.confidence = ret.confidence
       /\ solo.out.ens_state = ret.ens_state
       /\ solo.out.ens_confidence = ret.ens_confidence
  /\ solo.who = 2 => solo.out = peer_ret

Distance(call) ==
  LET d(k) == QAbs(QSub(call.smoothed_scores[k], call.raw_scores[k]))
      worst == CHOOSE k \in ScoreKeySet : \A j \in ScoreKeySet : QLe(d(j), d(k))
  IN  d(worst)

C20_TransitionCount ==
  /\ [](/\ transition_count = tally.changes
         /\ last_state = tally.prev)
  /\ [][/\ (ncalls' = ncalls + 1 =>
              /\ transition_count' =
                   IF ret'.state # last_state THEN transition_count + 1
                   ELSE transition_count
              /\ last_state' = ret'.state)
         /\ (transition_count' < transition_count => ret'.op = "reset")]_vars

\* Three calls since the reset, two of which changed the state (the third
\* among them) while one repeated the state before it.
C20_Witness ==
  /\ Predicted
  /\ ret.calls_before = 2
  /\ transition_count = 2
  /\ state_history[1].state # state_history[2].state
  /\ state_history[1].state # "Neutral"

\* C17. When the fatigue detector returns true, predict_state returns
\* Fatigued with confidence max(0.7, smoothed fatigued score), whatever the
\* other scores are: the rejection step does not run on that call.
C17_FatigueOverride ==
  (Predicted /\ ret.fatigue) =>
    /\ ret.state = "Fatigued"
    /\ ret.confidence = PyMax(Q(7, 10), ret.smoothed_scores["fatigued"])

\* A call on which the fatigue detector returned true while every smoothed
\* score was below rejection_threshold, and which returned Fatigued with
\* confidence 0.7.
C17_Witness ==
  /\ Predicted
  /\ ret.fatigue
  /\ \A k \in ScoreKeySet :
       QLt(ret.smoothed_scores[k], config["smoothing.rejection_threshold"])
  /\ ret.state = "Fatigued"
  /\ ret.confidence = Q(7, 10)

\* The sample of the last call satisfied the three qualifying conditions.
Qualified == Qualifying(ret.features, rms_decline_rate)

\* C19. After a call whose sample does not satisfy the three qualifying
\* conditions fatigue_start_time is unset; a qualifying sample that finds
\* it unset only records the start time and does not return Fatigued; and
\* Fatigued is returned only when qualifying samples have persisted for
\* duration_min since the first qualifying sample after the interruption.
C19_FatigueTimerReset ==
  /\ []((Predicted /\ ~Qualified) => fatigue_start_time = NoTime)
  /\ []((Predicted /\ ret.state = "Fatigued") =>
          /\ qual_start # NoTime
          /\ QLe(config["fatigued.duration_min"], QInt(now - qual_start)))
  /\ [][(ncalls' = ncalls + 1 /\ fatigue_start_time = NoTime /\ Qualified') =>
          /\ fatigue_start_time' = now'
          /\ ~ret'.fatigue
          /\ ret'.state # "Fatigued"]_vars

\* Fatigued was returned, a sample that does not qualify ended it, and
\* this call, on a qualifying sample at the time the new start time was
\* recorded, returned Neutral.
C19_Witness ==
  /\ Predicted
  /\ Qualified
  /\ transition_count = 2
  /\ ret.state = "Neutral"
  /\ fatigue_start_time = now
  /\ ~ret.fatigue

\* Number of buffered predictions whose state is s.
Buffered_Count(s) ==
  Cardinality({i \in 1..Len(state_history) : state_history[i].state = s})

RECURSIVE FractionSum(_, _)
FractionSum(distribution, states) ==
  IF states = {} THEN QZero
  ELSE LET s == CHOOSE s \in states : TRUE
       IN  QAdd(distribution[s], FractionSum(distribution, states \ {s}))

StatisticsOfBuffer ==
  LET stats == ret.stats
      total == Len(state_history)
      distribution == stats["state_distribution"]
  IN  /\ stats["total_predictions"] = total
      /\ DOMAIN distribution = {state_history[i].state : i \in 1..total}
      /\ \A s \in DOMAIN distribution :
           distribution[s] = Q(Buffered_Count(s), total)
      /\ FractionSum(distribution, DOMAIN distribution) = QOne
      /\ stats["transition_rate"] = Q(transition_count, total)
      /\ stats["most_common_state"] \in DOMAIN distribution
      /\ \A s \in DOMAIN distribution :
           QLe(distribution[s], distribution[stats["most_common_state"]])

\* C21. On a non-empty history get_state_statistics reports
\* total_predictions = len(state_history), the fractions count / total of
\* the buffered states (summing to 1), transition_rate = transition_count /
\* total_predictions and a most_common_state of maximal fraction, and it
\* changes no EngineState field.
C21_Statistics ==
  /\ []((ret.op = "stats" /\ Len(state_history) > 0) => StatisticsOfBuffer)
  /\ [][ret'.op = "stats" => Self' = Self]_vars

\* Statistics taken after three calls on a history that holds two entries
\* of different states.
C21_Witness ==
  /\ ret.op = "stats"
  /\ ret.calls_before = 3
  /\ Len(state_history) = 2
  /\ state_history[1].state # state_history[2].state
  /\ transition_count = 3

\* C22. The prediction appended to state_history and the confidence
\* appended to confidence_history by a call carry the state and confidence
\* returned to the caller of that call, for RuleBasedDetector.predict_state
\* and for EnsembleDetector.predict_state.
C22_HistoryMatchesReturned ==
  (Predicted /\ Len(state_history) > 0) =>
    LET returned_state == IF ret.op = "ensemble" THEN ret.ens_state
                          ELSE ret.state
        returned_confidence == IF ret.op = "ensemble" THEN ret.ens_confidence
                               ELSE ret.confidence
    IN  /\ state_history[Len(state_history)].state = returned_state
        /\ state_history[Len(state_history)].confidence = returned_confidence
        /\ confidence_history[Len(confidence_history)] = returned_confidence

FirstMaximal(scores) ==
  LET maximal(i) == \A j \in 1..Len(ScoreKeys) :
                      QLe(scores[ScoreKeys[j]], scores[ScoreKeys[i]])
  IN  CHOOSE i \in 1..Len(ScoreKeys) :
        maximal(i) /\ \A j \in 1..(i - 1) : ~maximal(j)

StateOfKey == <<"Relaxed", "Focused", "Stressed", "Fatigued">>

\* C23. The argmax breaks ties in favour of the first key in the order
\* relaxed, focused, stressed, fatigued: a prediction that is neither
\* rejected nor overridden returns the state of the first maximal smoothed
\* score, on first and on later calls, and so does the ensemble's argmax
\* over the raw scores.
C23_FirstKeyWinsTies ==
  Predicted =>
    /\ (~ret.fatigue /\ ret.state # "Neutral") =>
         ret.state = StateOfKey[FirstMaximal(ret.smoothed_scores)]
    /\ (~ret.fatigue /\ ret.state = "Neutral") =>
         QLt(ret.smoothed_scores[ScoreKeys[FirstMaximal(ret.smoothed_scores)]],
             config["smoothing.rejection_threshold"])
    /\ ret.op = "ensemble" =>
         ret.ens_state = StateOfKey[FirstMaximal(ret.raw_scores)]

\* A later call, past the first-call branch of the smoothing, whose relaxed
\* and focused scores are equal and highest and which returned Relaxed.
C23_Witness ==
  /\ Predicted
  /\ ret.op = "predict"
  /\ ret.calls_before >= 1
  /\ ~ret.first
  /\ ret.smoothed_scores["relaxed"] = ret.smoothed_scores["focused"]
  /\ \A k \in ScoreKeySet :
       QLe(ret.smoothed_scores[k], ret.smoothed_scores["relaxed"])
  /\ ret.state = "Relaxed"

C29_FatigueNeverFires ==
  /\ rms_decline_rate = QZero
  /\ fatigue_start_time = NoTime
  /\ Predicted => (~ret.fatigue /\ ret.state # "Fatigued")

\* A call on which the trend was recomputed, fed with the fifth or later
\* sample of a run of low-mdf, low-rms samples whose rms falls from call to
\* call, more than duration_min seconds after the run began.
C29_Witness ==
  /\ Predicted
  /\ ret.trend_updated
  /\ decl_run.n >= 5
  /\ QLt(config["fatigued.duration_min"], QInt(now - decl_run.start))
  /\ QLt(FeatureGet(ret.features, "mdf"), config["fatigued.mdf_max"])
  /\ QLt(FeatureGet(ret.features, "rms"), Q(3, 10))

\* C24. With a non-empty secondary score set _ensemble_predictions returns,
\* for every state of the union of the two key sets,
\* (0.8 * rule + 0.2 * ml) / total, a missing key counting as 0 and total
\* being the sum of the weighted scores; the result sums to 1 whenever
\* total > 0, and both input mappings are as they were.
C24_WeightedCombination ==
  (ret.op = "combine" /\ DOMAIN ret.call.ml_scores # {}) =>
    LET rule_scores == ret.call.rule_scores
        ml_scores == ret.call.ml_scores
        out == ret.call.out
        union == DOMAIN rule_scores \cup DOMAIN ml_scores
        weighted ==
          [s \in union |->
             QAdd(QMul(Q(4, 5), IF s \in DOMAIN rule_scores
                                THEN rule_scores[s] ELSE QZero),
                  QMul(Q(1, 5), IF s \in DOMAIN ml_scores
                                THEN ml_scores[s] ELSE QZero))]
        total == FractionSum(weighted, union)
    IN  /\ DOMAIN out = union
        /\ QLt(QZero, total) =>
             /\ \A s \in union : out[s] = QDiv(weighted[s], total)
             /\ FractionSum(out, union) = QOne
        /\ ret.call.rule_after = rule_scores
        /\ ret.call.ml_after = ml_scores

\* A combination in which each mapping has a key the other lacks and both
\* contribute a positive score.
C24_Witness ==
  /\ ret.op = "combine"
  /\ "neutral" \in DOMAIN ret.call.ml_scores
  /\ "neutral" \notin DOMAIN ret.call.rule_scores
  /\ "stressed" \notin DOMAIN ret.call.ml_scores
  /\ "stressed" \in DOMAIN ret.call.rule_scores
  /\ QLt(QZero, ret.call.ml_scores["neutral"])
  /\ QLt(QZero, ret.call.rule_scores["stressed"])
  /\ QLt(QZero, ret.call.out["neutral"])

\* The Focused score as stated: 0.5, then the rms reward or penalty, then
\* half of the same reward or penalty for gsr_tonic, then the mdf reward,
\* clamped to [0, 1] after each step.
StatedFocusScore(rms, gsr_tonic, mdf) ==
  LET rms_width == QSub(config["focused.rms_max"], config["focused.rms_min"])
      rms_mid == QDiv(QAdd(config["focused.rms_min"],
                           config["focused.rms_max"]), QInt(2))
      rms_off == QDiv(QAbs(QSub(rms, rms_mid)), rms_width)
      gsr_width == QSub(config["focused.gsr_max"], config["focused.gsr_min"])
      gsr_mid == QDiv(QAdd(config["focused.gsr_min"],
                           config["focused.gsr_max"]), QInt(2))
      gsr_off == QDiv(QAbs(QSub(gsr_tonic, gsr_mid)), gsr_width)
      s1 == IF QLe(config["focused.rms_min"], rms)
                /\ QLe(rms, config["focused.rms_max"])
            THEN PyMin(QOne, QAdd(Q(1, 2), QSub(QOne, rms_off)))
            ELSE PyMax(QZero, QSub(Q(1, 2), rms_off))
      s2 == IF QLe(config["focused.gsr_min"], gsr_tonic)
                /\ QLe(gsr_tonic, config["focused.gsr_max"])
            THEN PyMin(QOne, QAdd(s1, QMul(Q(1, 2), QSub(QOne, gsr_off))))
            ELSE PyMax(QZero, QSub(s1, QMul(Q(1, 2), gsr_off)))
  IN  IF QLe(config["focused.mdf_min"], mdf)
      THEN PyMin(QOne, QAdd(s2, QMul(Q(1, 2),
                                     QSub(mdf, config["focused.mdf_min"]))))
      ELSE s2

\* C26. The Focused score follows the stated shape; in particular a
\* gsr_tonic outside [gsr_min, gsr_max] lowers a positive running score by
\* half of |gsr_tonic - midpoint| / width.
C26_FocusedShape ==
  (ret.op = "score" /\ ret.call.focused.exc = "none") =>
    ret.call.focused.v =
      StatedFocusScore(ret.features["rms"], ret.features["gsr_tonic"],
                       ret.features["mdf"])

\* The Stressed score as stated: 0.3 plus the three rewards, each addition
\* clamped at 1.
StatedStressScore(rms, gsr_tonic, mdf) ==
  LET s1 == IF QLe(config["stressed.rms_min"], rms)
            THEN PyMin(QOne, QAdd(Q(3, 10),
                   QMul(QInt(2), QSub(rms, config["stressed.rms_min"]))))
            ELSE Q(3, 10)
      s2 == IF QLe(config["stressed.gsr_min"], gsr_tonic)
            THEN PyMin(QOne, QAdd(s1,
                   QMul(Q(3, 2), QSub(gsr_tonic, config["stressed.gsr_min"]))))
            ELSE s1
  IN  IF QLe(config["stressed.mdf_min"], mdf)
      THEN PyMin(QOne, QAdd(s2, QSub(mdf, config["stressed.mdf_min"])))
      ELSE s2

\* C27. The Stressed score before normalisation lies in [0.3, 1], is 0.3
\* plus 2 * (rms - rms_min), 1.5 * (gsr_tonic - gsr_min) and
\* 1.0 * (mdf - mdf_min) for the features at or above their thresholds,
\* each addition clamped at 1, and raising any one feature never lowers it.
C27_StressedScore ==
  ret.op = "score" =>
    LET rms == ret.features["rms"]
        gsr_tonic == ret.features["gsr_tonic"]
        mdf == ret.features["mdf"]
        score == ret.call.stressed
    IN  /\ score.exc = "none"
        /\ QLe(Q(3, 10), score.v) /\ QLe(score.v, QOne)
        /\ score.v = StatedStressScore(rms, gsr_tonic, mdf)
        /\ \A x \in GridValues :
             /\ QLe(rms, x) =>
                  QLe(score.v, _calculate_stress_score(config, x, gsr_tonic, mdf).v)
             /\ QLe(gsr_tonic, x) =>
                  QLe(score.v, _calculate_stress_score(config, rms, x, mdf).v)
             /\ QLe(mdf, x) =>
                  QLe(score.v, _calculate_stress_score(config, rms, gsr_tonic, x).v)

\* A score strictly between 0.3 and 1 to which all three rewards
\* contributed.
C27_Witness ==
  /\ ret.op = "score"
  /\ QLt(config["stressed.rms_min"], ret.features["rms"])
  /\ QLt(config["stressed.gsr_min"], ret.features["gsr_tonic"])
  /\ QLt(config["stressed.mdf_min"], ret.features["mdf"])
  /\ QLt(Q(3, 10), ret.call.stressed.v)
  /\ QLt(ret.call.stressed.v, QOne)

C31_EnsembleStates ==
  (Predicted /\ ret.op = "ensemble") =>
    /\ ret.ens_state \in {"Relaxed", "Focused", "Stressed"}
    /\ ret.ens_confidence = ret.raw_scores[ArgMax(ret.raw_scores)]

\* An ensemble call that the rule detector rejected as Neutral.
C31_Witness ==
  /\ Predicted
  /\ ret.op = "ensemble"
  /\ ret.state = "Neutral"
  /\ ret.ens_state # "Neutral"
  /\ state_history[Len(state_history)].state = "Neutral"

\* C32. The transition_rate reported by get_state_statistics lies in
\* [0, 1], also after more calls than state_history holds.
C32_TransitionRateInUnitInterval ==
  (ret.op = "stats" /\ Len(state_history) > 0) =>
    /\ QLe(QZero, ret.stats["transition_rate"])
    /\ QLe(ret.stats["transition_rate"], QOne)

RmsInBand(rms) ==
  QLe(config["focused.rms_min"], rms) /\ QLe(rms, config["focused.rms_max"])

\* gsr_tonic and mdf to which the later steps of the Focused score add
\* nothing.
NoLaterReward(gsr_tonic, mdf) ==
  /\ ~(QLe(config["focused.gsr_min"], gsr_tonic)
        /\ QLe(gsr_tonic, config["focused.gsr_max"]))
  /\ QLt(mdf, config["focused.mdf_min"])

C34_PositiveTotal ==
  /\ (ret.op = "score" /\ \A k \in DOMAIN ret.call : ret.call[k].exc = "none") =>
       /\ QLe(QZero, ret.call.relaxed.v)
       /\ QLe(QZero, ret.call.focused.v)
       /\ QLe(Q(3, 10), ret.call.stressed.v)
       /\ QLe(Q(3, 5), QAdd(QAdd(ret.call.relaxed.v, ret.call.focused.v),
                            QAdd(ret.call.stressed.v, Q(3, 10))))
  /\ Predicted =>
       FractionSum(ret.raw_scores, DOMAIN ret.raw_scores) = QOne

\* Features for which the relaxed and focused scores are both 0.
C34_Witness ==
  /\ ret.op = "score"
  /\ \A k \in DOMAIN ret.call : ret.call[k].exc = "none"
  /\ ret.call.relaxed.v = QZero
  /\ ret.call.focused.v = QZero

C36_CombinedOrderDeterministic ==
  ret.op = "combine twice" =>
    /\ ret.call.order_again = ret.call.order
    /\ ret.call.best_again = ret.call.best

====
